---- MODULE Spec2Model ----
(***************************************************************************)
(* One upload processed by VectorFileUploader: construction, then one run  *)
(* of create_output_data_source.  The collaborators (libmagic, GDAL/OGR,   *)
(* zipfile, tarfile, 7z, the file system) are modelled by what this code   *)
(* needs of them.                                                          *)
(*                                                                         *)
(* Strings are sequences of symbols.  A symbol is a one-character string   *)
(* ("r", "w", "e", ".") or a whole word that is never split ("geojson").   *)
(* A path is a sequence of components, each a non-empty symbol sequence;   *)
(* PathStr renders it with "/" separators, as os.path does.                *)
(***************************************************************************)
EXTENDS Integers, Sequences, FiniteSets, TLC

\* Longest entry list of an enumerated archive.
MaxEntries == 2

\* settings.MAX_VECTOR_FILE_SIZE (a deployment setting; any positive value).
MAX_VECTOR_FILE_SIZE == 3

-----------------------------------------------------------------------------
(* MIME type sets *)

FILE_TYPES == {"application/xml", "text/plain", "text/html"}

ARCHIVE_TYPES == {"application/zip", "application/x-bzip2", "application/x-tar",
                  "application/gzip", "application/x-xz",
                  "application/x-7z-compressed"}

TAR_ARCHIVES_MIME_TYPES == {"application/x-bzip2", "application/x-tar",
                            "application/gzip", "application/x-xz"}

ZIP_FILE_MIME_TYPES == {"application/zip"}

SEVEN_ZIP_MIME_TYPES == {"application/x-7z-compressed"}

-----------------------------------------------------------------------------
(* Strings and paths *)

\* str.lower() on the symbols that have an upper-case spelling here.
LowerSym(s) ==
    CASE s = "KML" -> "kml"
      [] s = "SHP" -> "shp"
      [] OTHER -> s

Lower(str) == [i \in 1..Len(str) |-> LowerSym(str[i])]

\* str.endswith(suffix)
EndsWith(str, suffix) ==
    /\ Len(str) >= Len(suffix)
    /\ SubSeq(str, Len(str) - Len(suffix) + 1, Len(str)) = suffix

\* Position of the last "." of str, 0 when there is none.
LastDot(str) ==
    LET dots == {i \in 1..Len(str) : str[i] = "."}
    IN IF dots = {} THEN 0 ELSE CHOOSE i \in dots : \A j \in dots : j <= i

\* str.rsplit('.', 1): one or two parts.
RSplitDot(str) ==
    IF LastDot(str) = 0 THEN <<str>>
    ELSE <<SubSeq(str, 1, LastDot(str) - 1), SubSeq(str, LastDot(str) + 1, Len(str))>>

RECURSIVE PathStr(_)
\* The path as one string: "/" before every component.
PathStr(p) ==
    IF p = <<>> THEN <<>>
    ELSE PathStr(SubSeq(p, 1, Len(p) - 1)) \o <<"/">> \o p[Len(p)]

DotDot == <<".", ".">>

RECURSIVE NormPath(_)
\* os.path.abspath of an absolute path: ".." removes the component before
\* it, and is dropped at the root.
NormPath(p) ==
    IF p = <<>> THEN <<>>
    ELSE LET front == NormPath(SubSeq(p, 1, Len(p) - 1))
             last == p[Len(p)]
         IN IF last = DotDot
            THEN (IF front = <<>> THEN <<>> ELSE SubSeq(front, 1, Len(front) - 1))
            ELSE Append(front, last)

\* os.path.join(directory, name) for a member name [abs, comps]: an
\* absolute name replaces the directory.
JoinPath(directory, member) ==
    IF member.abs THEN member.comps ELSE directory \o member.comps

\* os.path.commonprefix of two strings: character by character.
CommonPrefix(a, b) ==
    LET same == {n \in 0..Len(a) :
                    n <= Len(b) /\ \A i \in 1..n : a[i] = b[i]}
        n == CHOOSE m \in same : \A k \in same : k <= m
    IN SubSeq(a, 1, n)

\* is_within_directory(directory, target) of __read_from_tar.
is_within_directory(directory, target) ==
    CommonPrefix(PathStr(NormPath(directory)), PathStr(NormPath(target)))
        = PathStr(NormPath(directory))

\* The file system's own notion: target lies strictly below directory.
IsBelow(directory, target) ==
    /\ Len(target) > Len(directory)
    /\ SubSeq(target, 1, Len(directory)) = directory

-----------------------------------------------------------------------------
(* Locations *)

AOI_TEMP_ROOT == << <<"r">> >>

\* str(uuid.uuid4()) of ArchiveReader.__init__
WorkspaceUuid == <<"w">>

tmp_folder_path == Append(AOI_TEMP_ROOT, WorkspaceUuid)

\* path.join(AOI_TEMP_ROOT, str(uuid.uuid4()) + '.geojson')
OutputName == Append(AOI_TEMP_ROOT, <<"o", ".", "geojson">>)

UploadDir == << <<"u">> >>

NoPath == <<>>

-----------------------------------------------------------------------------
(* The files an upload can hold.  mime is what libmagic reports for the    *)
(* file, json what json.loads makes of its text, readable whether OGR can  *)
(* open it, layers its layers, each the geometry names of its features.    *)

FileInfo(name, mime, json, readable, layers) ==
    [name |-> name, mime |-> mime, json |-> json, readable |-> readable,
     layers |-> layers]

Catalogue ==
    <<FileInfo(<<"a", ".", "geojson">>, "text/plain", "dict", TRUE,
               << <<"POINT", "POINT", "POINT">> >>),
      FileInfo(<<"b", ".", "kml">>, "application/xml", "invalid", TRUE,
               << <<"POLYGON", "POLYGON">> >>),
      FileInfo(<<"c", ".", "KML">>, "text/html", "invalid", TRUE,
               << <<"LINESTRING">>, <<"POINT">> >>),
      FileInfo(<<"m", ".", "geojson">>, "text/plain", "dict", TRUE,
               << <<"POINT", "POLYGON">> >>),
      FileInfo(<<"x", ".", "shp">>, "application/octet-stream", "invalid", TRUE,
               << <<"POLYGON">> >>),
      FileInfo(<<"x", ".", "dbf">>, "application/octet-stream", "invalid", FALSE,
               <<>>),
      FileInfo(<<"bad", ".", "kml">>, "application/xml", "invalid", FALSE,
               <<>>),
      FileInfo(<<"arr", ".", "geojson">>, "text/plain", "array", FALSE,
               <<>>),
      FileInfo(<<"x", ".", "shx">>, "application/octet-stream", "invalid", FALSE,
               <<>>),
      FileInfo(<<"x", ".", "prj">>, "text/plain", "invalid", FALSE,
               <<>>),
      FileInfo(<<"evil">>, "application/octet-stream", "invalid", FALSE,
               <<>>)>>

\* A file on disk: where it is and which catalogue file it holds.
FileAt(p, id) == [path |-> p, id |-> id]

\* Python's None for self.file: the loop test `while self.file` fails on it.
NoFile == FileAt(NoPath, 0)

Truthy(f) == f.path # NoPath

MimeOf(f) == Catalogue[f.id].mime

-----------------------------------------------------------------------------
(* validators.py *)

\* KMZValidator.driver_validation
KMZValidator_driver_validation(f) ==
    /\ MimeOf(f) \in {"application/xml", "text/plain"}
    /\ EndsWith(Lower(PathStr(f.path)), <<".", "kml">>)

\* KMLValidator.driver_validation
KMLValidator_driver_validation(f) ==
    /\ MimeOf(f) \in {"application/xml", "text/plain", "text/html"}
    /\ EndsWith(Lower(PathStr(f.path)), <<".", "kml">>)

\* GeoJSONValidator.driver_validation: any failure of the chain is False.
GeoJSONValidator_driver_validation(f) ==
    /\ MimeOf(f) = "text/plain"
    /\ Catalogue[f.id].json = "dict"
    /\ Catalogue[f.id].readable

SHP_SET == {<<"dbf">>, <<"shp">>, <<"shx">>, <<"prj">>}

\* ShapeValidator.driver_validation
ShapeValidator_driver_validation(fileList) ==
    LET files_extension ==
            {RSplitDot(PathStr(fileList[i].path))[2] :
                i \in {j \in 1..Len(fileList) :
                          Len(RSplitDot(Lower(PathStr(fileList[j].path)))) > 1}}
    IN SHP_SET \subseteq files_extension

RECURSIVE get_shp_files(_)
\* ShapeValidator.get_shp_files: endswith('.shp'), case as written.
get_shp_files(extracted_files) ==
    IF extracted_files = <<>> THEN <<>>
    ELSE (IF EndsWith(PathStr(Head(extracted_files).path), <<".", "shp">>)
          THEN <<Head(extracted_files)>> ELSE <<>>)
         \o get_shp_files(Tail(extracted_files))

\* An output feature without geometry.
EmptyFeature == "EMPTY"

\* OutFeature with the geometry set whatever the filter says.
OutFeature_FilterIgnored(geom, types) == geom

\* The feature the loop body creates for one source feature.
OutFeature(geom, types) ==
    IF (types # {} /\ geom \in types) \/ types = {} THEN geom ELSE EmptyFeature

\* VectorValidator.__set_data_source: the layers read from the file.  A
\* layer without features makes the code open the file again with
\* ogr.Open, which reads the same file.
set_data_source(f) == Catalogue[f.id].layers

RECURSIVE WriteLayers(_, _, _)
\* The loop over the source layers: each goes to GetLayer() when the output
\* has a layer, and to a new layer named layer_<index + 1> otherwise;
\* index stays 0.
WriteLayers(outLayers, srcLayers, types) ==
    IF srcLayers = <<>> THEN outLayers
    ELSE LET feats == [i \in 1..Len(Head(srcLayers)) |->
                          OutFeature(Head(srcLayers)[i], types)]
             index == 0
             next == IF outLayers = <<>>
                     THEN <<[name |-> index + 1, features |-> feats]>>
                     ELSE [outLayers EXCEPT ![1].features = @ \o feats]
         IN WriteLayers(next, Tail(srcLayers), types)

\* VectorValidator.write_geometry_to_data_source: ok is FALSE when the
\* driver cannot open the file (Open returns None and GetLayerCount raises).
write_geometry_to_data_source(outLayers, f, types) ==
    IF ~Catalogue[f.id].readable
    THEN [ok |-> FALSE, layers |-> outLayers]
    ELSE [ok |-> TRUE, layers |-> WriteLayers(outLayers, set_data_source(f), types)]

RECURSIVE WriteShpFiles(_, _, _, _)
\* The loop of get_geometry_from_shp_files over the .shp files; calls is the
\* list of files handed to write_geometry_to_data_source so far.
WriteShpFiles(outLayers, shpList, types, calls) ==
    IF shpList = <<>> THEN [ok |-> TRUE, layers |-> outLayers, calls |-> calls]
    ELSE LET r == write_geometry_to_data_source(outLayers, Head(shpList), types)
             c == Append(calls, [file |-> Head(shpList), by |-> "Shape", ok |-> r.ok])
         IN IF r.ok
            THEN WriteShpFiles(r.layers, Tail(shpList), types, c)
            ELSE [ok |-> FALSE, layers |-> r.layers, calls |-> c]

\* ShapeValidator.get_geometry_from_shp_files
get_geometry_from_shp_files(outLayers, extracted_files, types) ==
    WriteShpFiles(outLayers, get_shp_files(extracted_files), types, <<>>)

-----------------------------------------------------------------------------
(* archive_reader.py *)

\* An archive member: its name (absolute or relative, as components) and
\* the catalogue file it holds.
Member(abs, comps, id) == [abs |-> abs, comps |-> comps, id |-> id]

\* Where extractall writes a member: os.path.join(path, name), resolved.
MemberTarget(directory, m) == NormPath(JoinPath(directory, m))

\* The loop of safe_extract passes: no member fails is_within_directory.
safe_extract_passes(members, directory) ==
    \A i \in 1..Len(members) :
        is_within_directory(directory, JoinPath(directory, members[i]))

RECURSIVE ExtractAll(_, _)
\* extractall: the files on disk afterwards, in member order; a later member
\* with the same destination replaces the earlier one.
ExtractAll(members, directory) ==
    IF members = <<>> THEN <<>>
    ELSE LET rest == ExtractAll(Tail(members), directory)
             here == MemberTarget(directory, Head(members))
         IN IF \E i \in 1..Len(rest) : rest[i].path = here
            THEN rest
            ELSE <<FileAt(here, Head(members).id)>> \o rest

RECURSIVE absolute_file_paths(_, _)
\* ArchiveReader.__absolute_file_paths: the files below the directory.
absolute_file_paths(directory, onDisk) ==
    IF onDisk = <<>> THEN <<>>
    ELSE (IF IsBelow(directory, Head(onDisk).path) THEN <<Head(onDisk)>> ELSE <<>>)
         \o absolute_file_paths(directory, Tail(onDisk))

Range(seq) == {seq[i] : i \in 1..Len(seq)}

-----------------------------------------------------------------------------
(* Inputs *)

SafeMembers ==
    {Member(FALSE, <<Catalogue[id].name>>, id) : id \in 1..8}
    \cup {Member(FALSE, << <<"s">>, Catalogue[2].name >>, 2)}

\* ../../etc/evil, ../we/b.kml (a sibling of the workspace r/w) and /etc/evil.
EvilMembers ==
    {Member(FALSE, <<DotDot, DotDot, <<"e", "t", "c">>, Catalogue[11].name>>, 11),
     Member(FALSE, <<DotDot, <<"w", "e">>, Catalogue[2].name>>, 2),
     Member(TRUE, << <<"e", "t", "c">>, Catalogue[11].name >>, 11)}

SeqsUpTo(S, n) ==
    UNION {{q \in [1..k -> S] : \A i, j \in 1..k : q[i] = q[j] => i = j} :
              k \in 0..n}

\* A complete shapefile set next to a KML file.
ShapefileSet ==
    <<Member(FALSE, <<Catalogue[5].name>>, 5), Member(FALSE, <<Catalogue[6].name>>, 6),
      Member(FALSE, <<Catalogue[9].name>>, 9), Member(FALSE, <<Catalogue[10].name>>, 10),
      Member(FALSE, <<Catalogue[2].name>>, 2)>>

\* zipfile sanitises member names and 7z is an external tool: only tar
\* archives are given members that point outside the workspace.
Contents(mime) ==
    IF mime \in TAR_ARCHIVES_MIME_TYPES
    THEN SeqsUpTo(SafeMembers \cup EvilMembers, MaxEntries) \cup {ShapefileSet}
    ELSE SeqsUpTo(SafeMembers, MaxEntries) \cup {ShapefileSet}

Sizes == {MAX_VECTOR_FILE_SIZE - 1, MAX_VECTOR_FILE_SIZE, MAX_VECTOR_FILE_SIZE + 1}

ArchiveMimes == {"application/zip", "application/x-tar", "application/gzip",
                 "application/x-7z-compressed"}

PlainUploads ==
    {[path |-> Append(UploadDir, Catalogue[id].name), id |-> id,
      mime |-> Catalogue[id].mime, size |-> sz, members |-> <<>>, good |-> TRUE] :
        id \in 1..8, sz \in Sizes}

ArchiveUploads ==
    UNION {{[path |-> Append(UploadDir, <<"up">>), id |-> 0, mime |-> mime,
             size |-> sz, members |-> ms, good |-> g] :
               ms \in Contents(mime), sz \in Sizes, g \in BOOLEAN} :
           mime \in ArchiveMimes}

Filters == {{}, {"POLYGON"}}

-----------------------------------------------------------------------------
(* State *)

VARIABLES
    upload,             \* the uploaded file: path, MIME, size, contents
    types,              \* the geometry type filter of the run
    pc,                 \* where the run is
    self_file,          \* self.file
    self_mime_type,     \* self.mime_type
    TEMP_FOLDER,        \* self.TEMP_FOLDER, NoPath for None
    OUTPUT_DATASOURCE,  \* self.OUTPUT_DATASOURCE: "None" or "open"
    archive_reader,     \* the ArchiveReader of the run, if one was made
    files,              \* the local list files
    shp_files,          \* the local list shp_files
    fs,                 \* the file system
    out,                \* the layers of the output artifact
    exc,                \* the exception in flight
    raised,             \* the exception the caller receives
    returned,           \* the path the caller receives, NoPath for none
    hist                \* what has happened: directories made and removed,
                        \* candidates, validator calls, shapefile passes

vars == <<upload, types, pc, self_file, self_mime_type, TEMP_FOLDER,
          OUTPUT_DATASOURCE, archive_reader, files, shp_files, fs, out, exc,
          raised, returned, hist>>

NoReader == [made |-> FALSE, tmp_folder |-> NoPath]

Init ==
    /\ upload \in PlainUploads \cup ArchiveUploads
    /\ types \in Filters
    /\ pc = "new"
    /\ self_file = NoFile
    /\ self_mime_type = "None"
    /\ TEMP_FOLDER = NoPath
    /\ OUTPUT_DATASOURCE = "None"
    /\ archive_reader = NoReader
    /\ files = <<>>
    /\ shp_files = <<>>
    /\ fs = [upload |-> TRUE, dirs |-> {}, out |-> FALSE, extracted |-> <<>>]
    /\ out = <<>>
    /\ exc = "None"
    /\ raised = "None"
    /\ returned = NoPath
    /\ hist = [mkdirs |-> 0, rmtrees |-> 0, extraction |-> "none", cands |-> <<>>,
               calls |-> <<>>, shpPass |-> <<>>]

-----------------------------------------------------------------------------
(* file_uploader.py *)

RECURSIVE NotBelow(_, _)
NotBelow(directory, onDisk) ==
    IF onDisk = <<>> THEN <<>>
    ELSE (IF IsBelow(directory, Head(onDisk).path) THEN <<>> ELSE <<Head(onDisk)>>)
         \o NotBelow(directory, Tail(onDisk))

\* shutil.rmtree(directory, ignore_errors=True) on the file system.
Rmtree(fsv, directory) ==
    [fsv EXCEPT !.dirs = @ \ {directory},
                !.extracted = NotBelow(directory, @)]

\* hist after that rmtree: it counts when the directory was there.
Rmtreed(h, fsv, directory) ==
    IF directory \in fsv.dirs THEN [h EXCEPT !.rmtrees = @ + 1] ELSE h

\* VectorFileUploader.__init__
UploaderInit ==
    /\ pc = "new"
    /\ self_file' = FileAt(upload.path, upload.id)
    /\ self_mime_type' = upload.mime
    /\ IF upload.size >= MAX_VECTOR_FILE_SIZE
       THEN raised' = "ValidationError" /\ pc' = "rejected"
       ELSE IF upload.mime \notin FILE_TYPES /\ upload.mime \notin ARCHIVE_TYPES
            THEN raised' = "TypeError" /\ pc' = "rejected"
            ELSE raised' = raised /\ pc' = "ready"
    /\ UNCHANGED <<upload, types, TEMP_FOLDER, OUTPUT_DATASOURCE, archive_reader,
                   files, shp_files, fs, out, exc, returned, hist>>

\* create_output_data_source up to the try: the output artifact is created.
CreateOutputDataSource ==
    /\ pc = "ready"
    /\ fs' = [fs EXCEPT !.out = TRUE]
    /\ out' = <<>>
    /\ OUTPUT_DATASOURCE' = "open"
    /\ pc' = "materialize"
    /\ UNCHANGED <<upload, types, self_file, self_mime_type, TEMP_FOLDER,
                   archive_reader, files, shp_files, exc, raised, returned, hist>>

\* __write_geometry_by_type, a plain vector file: files.append(self.file)
MaterializePlain ==
    /\ pc = "materialize"
    /\ self_mime_type \in FILE_TYPES
    /\ files' = <<self_file>>
    /\ hist' = [hist EXCEPT !.cands = <<self_file>>]
    /\ pc' = "pop"
    /\ UNCHANGED <<upload, types, self_file, self_mime_type, TEMP_FOLDER,
                   OUTPUT_DATASOURCE, archive_reader, shp_files, fs, out, exc,
                   raised, returned>>

\* ArchiveReader.__init__: the workspace directory is made.
ArchiveReaderInit ==
    /\ pc = "materialize"
    /\ self_mime_type \notin FILE_TYPES
    /\ IF self_mime_type \in TAR_ARCHIVES_MIME_TYPES \cup ZIP_FILE_MIME_TYPES
                                \cup SEVEN_ZIP_MIME_TYPES
       THEN /\ archive_reader' = [made |-> TRUE, tmp_folder |-> tmp_folder_path]
            /\ fs' = [fs EXCEPT !.dirs = @ \cup {tmp_folder_path}]
            /\ hist' = [hist EXCEPT !.mkdirs = @ + 1]
            /\ exc' = exc
            /\ pc' = "extract"
       ELSE /\ exc' = "ValidationError"
            /\ pc' = "except"
            /\ UNCHANGED <<archive_reader, fs, hist>>
    /\ UNCHANGED <<upload, types, self_file, self_mime_type, TEMP_FOLDER,
                   OUTPUT_DATASOURCE, files, shp_files, out, raised, returned>>

\* get_files raises: nothing is assigned in __write_geometry_by_type.
ExtractionRaises(e) ==
    /\ exc' = e
    /\ pc' = "except"
    /\ hist' = [hist EXCEPT !.extraction = "raised"]
    /\ UNCHANGED <<files, TEMP_FOLDER, fs>>

\* get_files returns: the members are on disk, the archive is removed, and
\* files, self.TEMP_FOLDER are assigned.
ExtractionReturns(members) ==
    LET onDisk == ExtractAll(members, archive_reader.tmp_folder)
        found == absolute_file_paths(archive_reader.tmp_folder, onDisk)
    IN /\ fs' = [fs EXCEPT !.extracted = onDisk, !.upload = FALSE]
       /\ files' = found
       /\ TEMP_FOLDER' = archive_reader.tmp_folder
       /\ hist' = [hist EXCEPT !.extraction = "done", !.cands = found]
       /\ pc' = "pop"
       /\ exc' = exc

\* ArchiveReader.__read_from_zip, through get_files
ReadFromZip ==
    /\ pc = "extract"
    /\ self_mime_type \in ZIP_FILE_MIME_TYPES
    /\ IF ~upload.good
       THEN ExtractionRaises("BadZipFile")
       ELSE ExtractionReturns(upload.members)
    /\ UNCHANGED <<upload, types, self_file, self_mime_type, OUTPUT_DATASOURCE,
                   archive_reader, shp_files, out, raised, returned>>

\* ArchiveReader.__read_from_tar, through get_files
ReadFromTar ==
    /\ pc = "extract"
    /\ self_mime_type \in TAR_ARCHIVES_MIME_TYPES
    /\ IF ~upload.good
       THEN ExtractionRaises("ReadError")
       ELSE IF ~safe_extract_passes(upload.members, archive_reader.tmp_folder)
            THEN ExtractionRaises("PathTraversal")
            ELSE ExtractionReturns(upload.members)
    /\ UNCHANGED <<upload, types, self_file, self_mime_type, OUTPUT_DATASOURCE,
                   archive_reader, shp_files, out, raised, returned>>

\* ArchiveReader.__read_from_7z, through get_files: the exit status of 7z is
\* not looked at; a failed 7z leaves the workspace empty.
ReadFrom7z ==
    /\ pc = "extract"
    /\ self_mime_type \in SEVEN_ZIP_MIME_TYPES
    /\ ExtractionReturns(IF upload.good THEN upload.members ELSE <<>>)
    /\ UNCHANGED <<upload, types, self_file, self_mime_type, OUTPUT_DATASOURCE,
                   archive_reader, shp_files, out, raised, returned>>

\* PopFirst written as in the loop, self.file = files.pop() if files else
\* None: an empty list does not raise.
PopFirst_NoneOnEmpty ==
    /\ pc = "pop"
    /\ IF files = <<>>
       THEN /\ self_file' = NoFile
            /\ pc' = "shape"
            /\ UNCHANGED <<files, exc>>
       ELSE /\ self_file' = files[Len(files)]
            /\ files' = SubSeq(files, 1, Len(files) - 1)
            /\ pc' = IF Truthy(files[Len(files)]) THEN "dispatch" ELSE "shape"
            /\ exc' = exc
    /\ UNCHANGED <<upload, types, self_mime_type, TEMP_FOLDER, OUTPUT_DATASOURCE,
                   archive_reader, shp_files, fs, out, raised, returned, hist>>

\* self.file = files.pop(): IndexError on an empty list.
PopFirst ==
    /\ pc = "pop"
    /\ IF files = <<>>
       THEN /\ exc' = "IndexError"
            /\ pc' = "except"
            /\ UNCHANGED <<self_file, files>>
       ELSE /\ self_file' = files[Len(files)]
            /\ files' = SubSeq(files, 1, Len(files) - 1)
            /\ pc' = IF Truthy(files[Len(files)]) THEN "dispatch" ELSE "shape"
            /\ exc' = exc
    /\ UNCHANGED <<upload, types, self_mime_type, TEMP_FOLDER, OUTPUT_DATASOURCE,
                   archive_reader, shp_files, fs, out, raised, returned, hist>>

\* get_driver_for_file with the KML validator tried before the KMZ one.
get_driver_for_file_KMLFirst(f) ==
    IF KMLValidator_driver_validation(f) THEN "KML"
    ELSE IF KMZValidator_driver_validation(f) THEN "KMZ"
    ELSE IF GeoJSONValidator_driver_validation(f) THEN "GeoJSON"
    ELSE "None"

\* VectorFileUploader.__get_driver_for_file: the validator class, or "None".
get_driver_for_file(f) ==
    IF KMZValidator_driver_validation(f) THEN "KMZ"
    ELSE IF KMLValidator_driver_validation(f) THEN "KML"
    ELSE IF GeoJSONValidator_driver_validation(f) THEN "GeoJSON"
    ELSE "None"

\* One turn of the while loop of __write_geometry_by_type.
Dispatch ==
    /\ pc = "dispatch"
    /\ LET driver == get_driver_for_file(self_file)
           r == write_geometry_to_data_source(out, self_file, types)
           next == IF files # <<>> THEN files[Len(files)] ELSE NoFile
       IN IF driver # "None" /\ ~r.ok
          THEN /\ exc' = "SourceReadError"
               /\ pc' = "except"
               /\ hist' = [hist EXCEPT !.calls =
                              Append(@, [file |-> self_file, by |-> driver, ok |-> FALSE])]
               /\ UNCHANGED <<self_file, files, shp_files, out>>
          ELSE /\ IF driver # "None"
                  THEN /\ out' = r.layers
                       /\ hist' = [hist EXCEPT !.calls =
                              Append(@, [file |-> self_file, by |-> driver, ok |-> TRUE])]
                       /\ shp_files' = shp_files
                  ELSE /\ shp_files' = Append(shp_files, self_file)
                       /\ UNCHANGED <<out, hist>>
               /\ self_file' = next
               /\ files' = IF files # <<>> THEN SubSeq(files, 1, Len(files) - 1) ELSE files
               /\ pc' = IF Truthy(next) THEN "dispatch" ELSE "shape"
               /\ exc' = exc
    /\ UNCHANGED <<upload, types, self_mime_type, TEMP_FOLDER, OUTPUT_DATASOURCE,
                   archive_reader, fs, raised, returned>>

\* if shp_files: ShapeValidator().get_geometry_from_shp_files(...)
ShapePass ==
    /\ pc = "shape"
    /\ IF shp_files # <<>>
       THEN LET r == get_geometry_from_shp_files(out, shp_files, types)
            IN /\ out' = r.layers
               /\ hist' = [hist EXCEPT !.calls = @ \o r.calls,
                                       !.shpPass = Append(@, shp_files)]
               /\ IF r.ok
                  THEN pc' = "cleanup" /\ exc' = exc
                  ELSE pc' = "except" /\ exc' = "SourceReadError"
       ELSE /\ pc' = "cleanup"
            /\ UNCHANGED <<out, hist, exc>>
    /\ UNCHANGED <<upload, types, self_file, self_mime_type, TEMP_FOLDER,
                   OUTPUT_DATASOURCE, archive_reader, files, shp_files, fs,
                   raised, returned>>

\* The end of __write_geometry_by_type, and return name.
Cleanup ==
    /\ pc = "cleanup"
    /\ IF archive_reader.made
       THEN /\ fs' = Rmtree(fs, archive_reader.tmp_folder)
            /\ hist' = Rmtreed(hist, fs, archive_reader.tmp_folder)
       ELSE UNCHANGED <<fs, hist>>
    /\ OUTPUT_DATASOURCE' = "None"
    /\ returned' = OutputName
    /\ pc' = "success"
    /\ UNCHANGED <<upload, types, self_file, self_mime_type, TEMP_FOLDER,
                   archive_reader, files, shp_files, out, exc, raised>>

\* ExceptHandler without remove(name): the partial output stays on disk.
ExceptHandler_KeepsOutput ==
    /\ pc = "except"
    /\ fs' = IF TEMP_FOLDER # NoPath THEN Rmtree(fs, TEMP_FOLDER) ELSE fs
    /\ hist' = IF TEMP_FOLDER # NoPath THEN Rmtreed(hist, fs, TEMP_FOLDER) ELSE hist
    /\ raised' = exc
    /\ pc' = "failed"
    /\ UNCHANGED <<upload, types, self_file, self_mime_type, TEMP_FOLDER,
                   OUTPUT_DATASOURCE, archive_reader, files, shp_files, out, exc,
                   returned>>

\* except Exception as e: ... raise e
ExceptHandler ==
    /\ pc = "except"
    /\ LET fs1 == IF TEMP_FOLDER # NoPath THEN Rmtree(fs, TEMP_FOLDER) ELSE fs
       IN fs' = [fs1 EXCEPT !.out = FALSE]
    /\ hist' = IF TEMP_FOLDER # NoPath THEN Rmtreed(hist, fs, TEMP_FOLDER) ELSE hist
    /\ out' = <<>>
    /\ raised' = exc
    /\ pc' = "failed"
    /\ UNCHANGED <<upload, types, self_file, self_mime_type, TEMP_FOLDER,
                   OUTPUT_DATASOURCE, archive_reader, files, shp_files, exc,
                   returned>>

Next ==
    \/ UploaderInit
    \/ CreateOutputDataSource
    \/ MaterializePlain
    \/ ArchiveReaderInit
    \/ ReadFromZip
    \/ ReadFromTar
    \/ ReadFrom7z
    \/ PopFirst
    \/ Dispatch
    \/ ShapePass
    \/ Cleanup
    \/ ExceptHandler

Spec == Init /\ [][Next]_vars

-----------------------------------------------------------------------------
(* Helpers of the properties *)

RECURSIVE Flatten(_)
Flatten(seqs) == IF seqs = <<>> THEN <<>> ELSE Head(seqs) \o Flatten(Tail(seqs))

\* The calls of write_geometry_to_data_source made by the dispatch loop.
DispatchCalls == SelectSeq(hist.calls, LAMBDA c : c.by # "Shape")

ShapeCalls == SelectSeq(hist.calls, LAMBDA c : c.by = "Shape")

OkCalls == SelectSeq(hist.calls, LAMBDA c : c.ok)

\* The source features of a file, layer after layer.
SourceFeatures(f) == Flatten(Catalogue[f.id].layers)

\* The features of the output artifact, layer after layer.
OutputFeatures == Flatten([i \in 1..Len(out) |-> out[i].features])

Accepts(geom) == types = {} \/ geom \in types

\* The candidates the dispatch loop has still to take.
Pending ==
    Range(files) \cup (IF pc = "dispatch" /\ Truthy(self_file) THEN {self_file} ELSE {})

RunEnded == pc \in {"success", "failed"}

-----------------------------------------------------------------------------
(* Properties *)

\* C1: when a run of create_output_data_source has ended, by success or
\* by failure, every workspace directory that ArchiveReader.__init__ made
\* has been deleted exactly once and none is left on disk.
C1_WorkspaceDeletedOnce ==
    RunEnded => (hist.rmtrees = hist.mkdirs /\ fs.dirs = {})

\* C2: once the output artifact exists, a raised error ends the run with
\* the artifact deleted, no path returned and that same error raised to the
\* caller; a path is returned only on success, with every candidate
\* processed and no error.
C2_NoPartialOutput ==
    /\ exc # "None" => (pc \in {"except", "failed"} /\ returned = NoPath)
    /\ pc = "except" => ENABLED ExceptHandler
    /\ pc = "failed" => (~fs.out /\ returned = NoPath /\ raised = exc /\ raised # "None")
    /\ returned # NoPath =>
          /\ pc = "success" /\ returned = OutputName /\ fs.out
          /\ raised = "None" /\ exc = "None"
          /\ Pending = {}
          /\ \A c \in Range(hist.cands) :
                \/ c \in Range(shp_files)
                \/ \E i \in 1..Len(hist.calls) : hist.calls[i].file = c /\ hist.calls[i].ok

\* A run that failed after part of the output had been written.
C2_Witness ==
    /\ pc = "failed"
    /\ \E i, j \in 1..Len(hist.calls) : hist.calls[i].ok /\ ~hist.calls[j].ok

\* C3: no file is ever on disk outside the workspace directory; and when a
\* readable tar archive has a member whose resolved destination is not
\* below the workspace, extraction fails with the path traversal error,
\* nothing of the archive is written and the archive is not deleted.
C3_TarTraversalFailsClosed ==
    /\ \A f \in Range(fs.extracted) : IsBelow(tmp_folder_path, f.path)
    /\ ( /\ self_mime_type \in TAR_ARCHIVES_MIME_TYPES
         /\ upload.good
         /\ hist.extraction # "none"
         /\ \E m \in Range(upload.members) :
               ~IsBelow(tmp_folder_path, MemberTarget(tmp_folder_path, m)) )
       => (exc = "PathTraversal" /\ fs.extracted = <<>> /\ fs.upload)

\* The list has a file with the extension ext.
HasExtension(fileList, ext) ==
    \E i \in 1..Len(fileList) : EndsWith(PathStr(fileList[i].path), <<".", ext>>)

\* C4: the Shapefile pass hands a .shp file to
\* write_geometry_to_data_source only if the unmatched list it was given
\* has the extensions dbf, shp, shx and prj.
C4_ShpNeedsCompanions ==
    ShapeCalls # <<>> =>
        \A ext \in {"dbf", "shp", "shx", "prj"} : HasExtension(hist.shpPass[1], ext)

RECURSIVE AcceptedCount(_)
\* The number of features of the listed files the filter accepts.
AcceptedCount(fileList) ==
    IF fileList = <<>> THEN 0
    ELSE Len(SelectSeq(SourceFeatures(Head(fileList)), Accepts))
         + AcceptedCount(Tail(fileList))

Recognized(f) ==
    \/ KMZValidator_driver_validation(f)
    \/ KMLValidator_driver_validation(f)
    \/ GeoJSONValidator_driver_validation(f)

\* C5: after a successful run over candidates the validators recognize,
\* the output has as many features as the candidates have features
\* accepted by the filter.
C5_FeatureCountFiltered ==
    (pc = "success" /\ \A c \in Range(hist.cands) : Recognized(c))
        => Len(OutputFeatures) = AcceptedCount(hist.cands)

RECURSIVE LayerCount(_)
\* The number of source layers read by the listed calls.
LayerCount(calls) ==
    IF calls = <<>> THEN 0
    ELSE Len(Catalogue[Head(calls).file.id].layers) + LayerCount(Tail(calls))

\* C6: after a successful run the output has one layer per source layer
\* processed; a.geojson (3 points) merged with b.kml (2 polygons), without
\* filter, gives 2 layers and 5 features.
C6_LayerPerSourceLayer ==
    pc = "success" =>
        /\ Len(out) = LayerCount(hist.calls)
        /\ ( /\ types = {}
             /\ {c.id : c \in Range(hist.cands)} = {1, 2}
             /\ Len(hist.cands) = 2 )
           => (Len(out) = 2 /\ Len(OutputFeatures) = 5)

\* C7: the constructor rejects with ValidationError exactly when the size
\* exceeds the maximum or the MIME type is in neither set, before any
\* workspace or output exists; a supported upload of exactly the maximum
\* size is accepted.
C7_RejectsExactly ==
    pc # "new" =>
        /\ (pc = "rejected" /\ raised = "ValidationError")
              <=> ( \/ upload.size > MAX_VECTOR_FILE_SIZE
                    \/ upload.mime \notin FILE_TYPES \cup ARCHIVE_TYPES )
        /\ pc = "rejected" => (hist.mkdirs = 0 /\ fs.dirs = {} /\ ~fs.out)
        /\ ( /\ upload.size = MAX_VECTOR_FILE_SIZE
             /\ upload.mime \in FILE_TYPES \cup ARCHIVE_TYPES ) => pc # "rejected"

\* C8: every candidate is at any time in exactly one place: still to be
\* taken, handed once to the first validator matching it in the order KMZ,
\* KML, GeoJSON, or once in the unmatched list; the Shapefile pass runs at
\* most once, after the loop has taken every candidate, only with a
\* non-empty unmatched list, and is given that whole list.
C8_DispatchOnce ==
    LET W == {DispatchCalls[i].file : i \in 1..Len(DispatchCalls)}
        U == Range(shp_files)
    IN /\ Pending \cup W \cup U = Range(hist.cands)
       /\ Pending \cap W = {} /\ Pending \cap U = {} /\ W \cap U = {}
       /\ Cardinality(W) = Len(DispatchCalls)
       /\ Cardinality(U) = Len(shp_files)
       /\ Cardinality(Pending) + Len(DispatchCalls) + Len(shp_files) = Len(hist.cands)
       /\ \A i \in 1..Len(DispatchCalls) :
             LET c == DispatchCalls[i]
             IN /\ c.by \in {"KMZ", "KML", "GeoJSON"}
                /\ c.by = "KMZ" => KMZValidator_driver_validation(c.file)
                /\ c.by = "KML" => /\ ~KMZValidator_driver_validation(c.file)
                                   /\ KMLValidator_driver_validation(c.file)
                /\ c.by = "GeoJSON" => /\ ~KMZValidator_driver_validation(c.file)
                                       /\ ~KMLValidator_driver_validation(c.file)
                                       /\ GeoJSONValidator_driver_validation(c.file)
       /\ \A u \in U : ~Recognized(u)
       /\ Len(hist.shpPass) <= 1
       /\ ShapeCalls # <<>> => Len(hist.shpPass) = 1
       /\ Len(hist.shpPass) = 1 =>
             /\ Pending = {}
             /\ hist.shpPass[1] = shp_files
             /\ shp_files # <<>>
             /\ \A i \in 1..Len(ShapeCalls) : ShapeCalls[i].file \in U
       /\ pc \in {"cleanup", "success"} =>
             /\ Pending = {}
             /\ Len(hist.shpPass) = (IF shp_files = <<>> THEN 0 ELSE 1)

\* A finished run that used the KML validator for one file and the
\* Shapefile pass for another.
C8_Witness ==
    /\ pc = "success"
    /\ \E i \in 1..Len(DispatchCalls) : DispatchCalls[i].by = "KML"
    /\ Len(hist.shpPass) = 1
    /\ ShapeCalls # <<>>

EmptyExtraction == hist.extraction = "done" /\ hist.cands = <<>>

\* C10: when extraction returns an empty candidate list the run never
\* succeeds: nothing is dispatched, files.pop() raises, and the run fails
\* with workspace and output removed, the archive being deleted already.
C10_EmptyArchiveFails ==
    EmptyExtraction =>
        /\ pc \in {"pop", "except", "failed"}
        /\ pc = "pop" => ENABLED PopFirst
        /\ pc = "except" => ENABLED ExceptHandler
        /\ hist.calls = <<>> /\ hist.shpPass = <<>> /\ shp_files = <<>>
        /\ ~fs.upload
        /\ returned = NoPath
        /\ pc \in {"except", "failed"} => exc = "IndexError"
        /\ pc = "failed" =>
              /\ raised = "IndexError"
              /\ fs.dirs = {} /\ hist.rmtrees = 1
              /\ ~fs.out

\* A 7z archive with members whose extraction failed silently, run ended.
C10_Witness ==
    /\ EmptyExtraction
    /\ pc = "failed"
    /\ self_mime_type \in SEVEN_ZIP_MIME_TYPES
    /\ ~upload.good /\ upload.members # <<>>

====
